---- MODULE Spec2Model ----
(***************************************************************************)
(* Model of smartsketch-upload.py: the image transcoder (rgb_to_rgb565),   *)
(* the chunk framer (prepare_chunks), the upload session                   *)
(* (SmartSketchUploader.upload_image with wait_for_response and the        *)
(* notification handler) and the top level (main and the __main__ guard).  *)
(*                                                                         *)
(* Bytes and characters are their integer codes, text is a sequence of     *)
(* codes.  Time is counted in polling intervals of 100 ms.                 *)
(***************************************************************************)
EXTENDS Integers, Sequences, FiniteSets, TLC

\* ------------------------------------------------------------------ bounds
\* Device geometry (160 x 120 in the source), scaled down.
DEVICE_WIDTH == 2
DEVICE_HEIGHT == 1
\* The ready timeout (10 s in the source) in polling intervals of 100 ms.
ReadyTimeout == 3
\* The completion timeout (20 s in the source) in polling intervals of 100 ms.
CompletionTimeout == 4
\* How many notifications the device emits at most in one session.
MaxNotify == 3
\* Largest image side of the transcoder's and framer's own inputs.
MaxSide == 2

\* -------------------------------------------------------- program constants
DefaultChunkSize == 80

\* ----------------------------------------------------- integer operations
RECURSIVE BitAnd(_, _)
BitAnd(a, b) ==
    IF a = 0 \/ b = 0 THEN 0
    ELSE (a % 2) * (b % 2) + 2 * BitAnd(a \div 2, b \div 2)

RECURSIVE BitOr(_, _)
BitOr(a, b) ==
    IF a = 0 THEN b
    ELSE IF b = 0 THEN a
    ELSE (IF a % 2 = 1 \/ b % 2 = 1 THEN 1 ELSE 0) + 2 * BitOr(a \div 2, b \div 2)

Shr(a, n) == a \div (2 ^ n)

Shl(a, n) == a * (2 ^ n)

\* ------------------------------------------------------------- text
\* str.lower() on ASCII text.
Lower(s) == [k \in 1..Len(s) |-> IF s[k] \in 65..90 THEN s[k] + 32 ELSE s[k]]

\* Python's `needle in hay` for strings.
Contains(needle, hay) ==
    \E k \in 0..(Len(hay) - Len(needle)) :
        SubSeq(hay, k + 1, k + Len(needle)) = needle

\* bytes.decode('ascii', errors='ignore'): bytes above 127 are dropped.
DecodeAscii(data) == SelectSeq(data, LAMBDA c : c < 128)

\* The characters str.strip() removes.
Whitespace == {9, 10, 11, 12, 13, 28, 29, 30, 31, 32}

\* Truth value of text.strip(): some character is not whitespace.
StripNonEmpty(text) == \E k \in 1..Len(text) : text[k] \notin Whitespace

\* ------------------------------------------------------------- transcoder
\* Mutant: the high byte first.
PackPixelHighFirst(p) ==
    LET r5 == BitAnd(Shr(p[1], 3), 31)
        g6 == BitAnd(Shr(p[2], 2), 63)
        b5 == BitAnd(Shr(p[3], 3), 31)
        rgb565 == BitOr(BitOr(Shl(r5, 11), Shl(g6, 5)), b5)
    IN  << BitAnd(Shr(rgb565, 8), 255), BitAnd(rgb565, 255) >>

\* The two bytes of one pixel, low byte first.
PackPixel(p) ==
    LET r5 == BitAnd(Shr(p[1], 3), 31)
        g6 == BitAnd(Shr(p[2], 2), 63)
        b5 == BitAnd(Shr(p[3], 3), 31)
        rgb565 == BitOr(BitOr(Shl(r5, 11), Shl(g6, 5)), b5)
    IN  << BitAnd(rgb565, 255), BitAnd(Shr(rgb565, 8), 255) >>

\* The loops of rgb_to_rgb565 from position (x, y) on: y outer, x inner.
RECURSIVE ScanFrom(_, _, _)
ScanFrom(img, x, y) ==
    IF y >= img.height THEN << >>
    ELSE IF x >= img.width THEN ScanFrom(img, 0, y + 1)
    ELSE PackPixel(img.pixels[<< x, y >>]) \o ScanFrom(img, x + 1, y)

rgb_to_rgb565(img) == ScanFrom(img, 0, 0)

\* ----------------------------------------------------------------- framer
\* Mutant: the reversal left out.
ReverseOmitted(data) == data

\* bytearray.reverse()
Reverse(data) == [k \in 1..Len(data) |-> data[Len(data) + 1 - k]]

\* A slice that leaves out its last byte.
SliceShort(data, i, j) ==
    LET hi == IF j > Len(data) THEN Len(data) ELSE j
    IN  IF i >= hi - 1 THEN << >> ELSE SubSeq(data, i + 1, hi - 1)

\* data[i:j] for 0 <= i <= j, clamped to the length as Python slices are.
Slice(data, i, j) ==
    LET hi == IF j > Len(data) THEN Len(data) ELSE j
    IN  IF i >= hi THEN << >> ELSE SubSeq(data, i + 1, hi)

\* The loop `for i in range(0, len(data), chunk_size)` from index i on.
\* A negative step gives an empty range; a zero step raises (see below).
RECURSIVE ChunksFrom(_, _, _)
ChunksFrom(data, i, chunk_size) ==
    IF chunk_size < 0 \/ i >= Len(data) THEN << >>
    ELSE << Slice(data, i, i + chunk_size) >> \o ChunksFrom(data, i + chunk_size, chunk_size)

\* range() raises ValueError for a zero step.
PrepareChunksRaises(chunk_size) == chunk_size = 0

prepare_chunks(rgb565_data, chunk_size) == ChunksFrom(Reverse(rgb565_data), 0, chunk_size)

\* -------------------------------------------------------- session helpers
\* Mutant: the default chunk size written into the frame.
CommandFrameDefaultSize(size) == << 1, 0, 0, 0, 80, 0, 2, 0 >>

\* The Command Frame of upload_image.
CommandFrame(size) == << 1, 0, 0, 0, size, 0, 2, 0 >>

\* A frame builder that accepts any size.
CommandFrameNeverRaises(size) == FALSE

\* bytes([...]) raises ValueError unless every item is in range(256).
CommandFrameRaises(size) == size < 0 \/ size > 255

\* Mutant: any response at all counts.
ResponseSeenAny(expected, log) == Len(log) > 0

\* The scan of the log in the waiting loops: some response contains the
\* expected text, both lower-cased.
ResponseSeen(expected, log) ==
    \E k \in 1..Len(log) : Contains(Lower(expected), Lower(log[k]))

\* _notification_handler: the log after the handler ran on `data`.
Handled(log, data) ==
    LET text == DecodeAscii(data)
    IN  IF StripNonEmpty(text) THEN Append(log, text) ELSE log

\* Mutant: the chunks taken from the end.
ChunkAtFromEnd(chs, k) == chs[Len(chs) - k]

\* The chunk the transfer loop writes in iteration k (enumerate, from 0).
ChunkAt(chs, k) == chs[k + 1]

\* Mutant: the completion timeout reported as a failure.
CompletionTimeoutReturnsFalse == "False"

\* The values upload_image returns.
ReadyTimeoutReturn == "False"
DoneReturn == "True"
CompletionTimeoutReturn == "True"

\* Mutant: the success banner printed on the completion timeout too.
MsgNoDoneAsSuccess == "IMAGE SUCCESSFULLY UPLOADED!"

\* The lines upload_image and main print that tell the outcomes apart.
MsgFailedOK == "Failed to get OK for command"
MsgReady == "Device ready"
MsgAllSent == "All chunks sent"
MsgUploaded == "IMAGE SUCCESSFULLY UPLOADED!"
MsgNoDone == "Upload completed but didn't receive 'Done'"
MsgNotFound == "Device not found!"
MsgConnected == "Connected!"
MsgUsage == "Usage"
MsgFileNotFound == "Error: File not found"
MsgUnsupported == "Error: Unsupported file format"
MsgInterrupted == "Interrupted by user"
MsgError == "Error"

\* ------------------------------------------------------------ text literals
TxtOK == << 79, 75 >>
TxtDone == << 100, 111, 110, 101 >>
TxtSmart == << 115, 109, 97, 114, 116 >>
TxtSketch == << 115, 107, 101, 116, 99, 104 >>
ExtPng == << 46, 112, 110, 103 >>
ExtJpg == << 46, 106, 112, 103 >>
ExtJpeg == << 46, 106, 112, 101, 103 >>

\* Mutant: one of the two words is enough.
NameMatchesEither(name) ==
    /\ Len(name) > 0
    /\ (Contains(TxtSmart, Lower(name)) \/ Contains(TxtSketch, Lower(name)))

\* The name test of main's device loop.
NameMatches(name) ==
    /\ Len(name) > 0
    /\ Contains(TxtSmart, Lower(name))
    /\ Contains(TxtSketch, Lower(name))

\* Index of the first matching device (0 when there is none): the loop
\* with its break.
RECURSIVE FirstMatchFrom(_, _)
FirstMatchFrom(devs, k) ==
    IF k > Len(devs) THEN 0
    ELSE IF NameMatches(devs[k].name) THEN k
    ELSE FirstMatchFrom(devs, k + 1)

\* Mutant: the extension is not checked.
SupportedExtAny(ext) == TRUE

\* The extension test of main.
SupportedExt(ext) == Lower(ext) \in {ExtPng, ExtJpg, ExtJpeg}

\* The scan of the log in the completion loop: "done" in response.lower().
\* A scan that looks at the newest fragment only.
DoneSeenLastOnly(log) == Len(log) > 0 /\ Contains(TxtDone, Lower(log[Len(log)]))

DoneSeen(log) == \E k \in 1..Len(log) : Contains(TxtDone, Lower(log[k]))

\* ------------------------------------------------------------------ inputs
Palette ==
    << << 255, 255, 255 >>, << 0, 0, 0 >>, << 8, 4, 8 >>, << 7, 3, 7 >>,
       << 200, 100, 50 >>, << 255, 0, 0 >>, << 0, 255, 0 >>, << 0, 0, 255 >> >>

\* The w x h image whose pixels run through the palette from `seed`.
PaletteImage(w, h, seed) ==
    [ width |-> w, height |-> h,
      pixels |-> [ xy \in (0..(w - 1)) \X (0..(h - 1)) |->
                     Palette[((seed + xy[1] + w * xy[2]) % Len(Palette)) + 1] ] ]

\* A single pixel of the given colour.
PixelImage(r, g, b) ==
    [ width |-> 1, height |-> 1, pixels |-> [ xy \in { << 0, 0 >> } |-> << r, g, b >> ] ]

ChannelValues == { 0, 7, 8, 127, 128, 255 }

\* What load_and_prepare_image can return: an RGB image of the device's size.
DeviceImages == { PaletteImage(DEVICE_WIDTH, DEVICE_HEIGHT, seed) : seed \in { 0, 4 } }

\* Images given to the transcoder on its own.
AnyImages ==
    { PaletteImage(w, h, seed) : w \in 1..MaxSide, h \in 1..MaxSide, seed \in 0..7 }
    \cup { PixelImage(r, g, b) : r \in ChannelValues, g \in ChannelValues, b \in ChannelValues }

NoImage == [ width |-> 0, height |-> 0, pixels |-> << >> ]

\* Buffers given to the framer on its own: every byte sequence over three
\* byte values, of every length up to twice MaxSide, the empty one included.
RECURSIVE SeqsUpTo(_, _)
SeqsUpTo(S, n) ==
    IF n = 0 THEN { << >> }
    ELSE LET shorter == SeqsUpTo(S, n - 1)
         IN  shorter \cup { Append(q, e) : q \in { t \in shorter : Len(t) = n - 1 }, e \in S }

AnyBuffers == SeqsUpTo({ 0, 1, 255 }, 2 * MaxSide)

\* Chunk sizes a caller of upload_image passes; 80 is the default.
ChunkSizes == { -1, 0, 1, 3, DefaultChunkSize, 255, 256 }

\* What the device sends: "OK", "BUSY" with a non-ASCII byte, "Done\r\n",
\* a blank line, and "Done" split over two notifications ("Do", "ne").
Payloads ==
    { << 79, 75 >>, << 66, 85, 83, 89, 255 >>, << 68, 111, 110, 101, 13, 10 >>, << 13, 10 >>,
      << 68, 111 >>, << 110, 101 >> }

\* Advertised names: "smART_Sketcher2.0", "OtherGadget", none.
NameSketcher ==
    << 115, 109, 65, 82, 84, 95, 83, 107, 101, 116, 99, 104, 101, 114, 50, 46, 48 >>
NameOther == << 79, 116, 104, 101, 114, 71, 97, 100, 103, 101, 116 >>
NameNone == << >>
\* "SmartWatch" and "sketchpad": one of the two words each.
NameSmartOnly == << 83, 109, 97, 114, 116, 87, 97, 116, 99, 104 >>
NameSketchOnly == << 115, 107, 101, 116, 99, 104, 112, 97, 100 >>

Dev(name, address) == [ name |-> name, address |-> address ]

\* What BleakScanner.discover returns.
DeviceLists ==
    { << >>,
      << Dev(NameOther, 1), Dev(NameNone, 2) >>,
      << Dev(NameSmartOnly, 1), Dev(NameSketchOnly, 2) >>,
      << Dev(NameNone, 1), Dev(NameSketcher, 2), Dev(NameSketcher, 3) >> }

NoDevice == Dev(NameNone, 0)

\* sys.argv[1:]: nothing, or one path that exists or not, by its extension
\* (".png", ".JPG", ".gif", none).
Paths ==
    [ exists : BOOLEAN,
      ext : { ExtPng, << 46, 74, 80, 71 >>, << 46, 103, 105, 102 >>, << >> } ]

Args == { << >> } \cup { << p >> : p \in Paths }

\* ------------------------------------------------------------------- state
VARIABLES
    pc,            \* where the program is
    caller,        \* "main": run from the command line; "direct": upload_image called on a connected client
    argv,          \* sys.argv[1:]
    devices,       \* the scan's result
    smart_sketch,  \* the device main selected
    link_calls,    \* the discover, connect and disconnect calls that were completed
    connected,     \* the BleakClient connection is up
    exit_code,     \* the process's exit code, -1 while running
    chunk_size,    \* upload_image's chunk_size
    img,           \* the prepared image
    rgb565_data,   \* the Pixel-565 buffer
    chunks,        \* the framer's result
    i,             \* the transfer loop's index
    responses,     \* self.responses
    subscribed,    \* the transport delivers notifications to the handler
    notify_calls,  \* the start_notify / stop_notify calls made, with how each ended
    writes,        \* the write_gatt_char calls made
    clock,         \* polling intervals elapsed since `start`
    ret,           \* what upload_image returned, "None" before
    outcome,       \* which return statement or exit ended the attempt
    out,           \* the lines printed
    exc,           \* the exception propagating, "none" otherwise
    emitted,       \* how many notifications the device has sent
    lostAt,        \* where the program was when a non-blank notification found no subscription
    okInWindow     \* the handler logged an "ok" while the ready wait was within its timeout

vars ==
    << pc, caller, argv, devices, smart_sketch, link_calls, connected, exit_code, chunk_size, img,
       rgb565_data, chunks, i, responses, subscribed, notify_calls, writes, clock, ret,
       outcome, out, exc, emitted, lostAt, okInWindow >>

inputVars == << caller, argv >>
scanVars == << devices, smart_sketch, link_calls >>
dataVars == << chunk_size, img, rgb565_data, chunks >>
deviceVars == << emitted, lostAt, okInWindow >>

InitCommon ==
    /\ devices = << >>
    /\ smart_sketch = NoDevice
    /\ link_calls = << >>
    /\ exit_code = -1
    /\ chunks = << >>
    /\ i = 0
    /\ responses = << >>
    /\ subscribed = FALSE
    /\ notify_calls = << >>
    /\ writes = << >>
    /\ clock = 0
    /\ ret = "None"
    /\ outcome = "none"
    /\ out = << >>
    /\ exc = "none"
    /\ emitted = 0
    /\ lostAt = {}
    /\ okInWindow = FALSE

\* The program started from the command line.
InitMain ==
    /\ pc = "main"
    /\ caller = "main"
    /\ argv \in Args
    /\ connected = FALSE
    /\ chunk_size = DefaultChunkSize
    /\ img = NoImage
    /\ rgb565_data = << >>
    /\ InitCommon

\* upload_image called on a fresh uploader over a connected client.
InitDirect ==
    /\ pc = "upload_image"
    /\ caller = "direct"
    /\ argv = << >>
    /\ connected = TRUE
    /\ chunk_size \in ChunkSizes
    /\ img = NoImage
    /\ rgb565_data = << >>
    /\ InitCommon

Init == InitMain \/ InitDirect

\* ----------------------------------------------------------- the top level
\* main, lines 172-196: the argument checks; sys.exit(1) ends the process.
MainArgs ==
    /\ pc = "main"
    /\ IF Len(argv) < 1
       THEN /\ out' = Append(out, MsgUsage)
            /\ outcome' = "Usage"
            /\ exit_code' = 1
            /\ pc' = "exit"
       ELSE IF ~argv[1].exists
       THEN /\ out' = Append(out, MsgFileNotFound)
            /\ outcome' = "FileNotFound"
            /\ exit_code' = 1
            /\ pc' = "exit"
       ELSE IF ~SupportedExt(argv[1].ext)
       THEN /\ out' = Append(out, MsgUnsupported)
            /\ outcome' = "UnsupportedFormat"
            /\ exit_code' = 1
            /\ pc' = "exit"
       ELSE /\ pc' = "scan"
            /\ UNCHANGED << out, outcome, exit_code >>
    /\ UNCHANGED << inputVars, scanVars, connected, dataVars, i, responses, subscribed,
                    notify_calls, writes, clock, ret, exc, deviceVars >>

\* main, line 200: the scan.
Scan ==
    /\ pc = "scan"
    /\ devices' \in DeviceLists
    /\ link_calls' = Append(link_calls, "discover")
    /\ pc' = "select"
    /\ UNCHANGED << inputVars, smart_sketch, connected, exit_code, dataVars, i, responses,
                    subscribed, notify_calls, writes, clock, ret, outcome, out, exc,
                    deviceVars >>

\* Mutant: the scan tried again when nothing matched.
AfterNotFoundRescan == "scan"

\* main, line 216: where the program goes after "Device not found!": main returns.
AfterNotFound == "exit"

\* main, lines 202-216: the first matching device, or the not-found return.
Select ==
    /\ pc = "select"
    /\ LET found == FirstMatchFrom(devices, 1)
       IN  IF found = 0
           THEN /\ out' = Append(out, MsgNotFound)
                /\ outcome' = "DeviceNotFound"
                /\ exit_code' = 0
                /\ pc' = AfterNotFound
                /\ UNCHANGED smart_sketch
           ELSE /\ smart_sketch' = devices[found]
                /\ pc' = "connect"
                /\ UNCHANGED << out, outcome, exit_code >>
    /\ UNCHANGED << inputVars, devices, link_calls, connected, dataVars, i, responses,
                    subscribed, notify_calls, writes, clock, ret, exc, deviceVars >>

\* main, lines 218-223: the connection is up, the uploader is built and
\* upload_image is called with the default chunk size.
Connect ==
    /\ pc = "connect"
    /\ connected' = TRUE
    /\ link_calls' = Append(link_calls, "connect")
    /\ responses' = << >>
    /\ out' = Append(out, MsgConnected)
    /\ pc' = "upload_image"
    /\ UNCHANGED << inputVars, devices, smart_sketch, exit_code, dataVars, i, subscribed, notify_calls,
                    writes, clock, ret, outcome, exc, deviceVars >>

\* main, lines 219-224: upload_image returned, the `async with` block ends
\* and disconnects, main returns.
AfterUpload ==
    /\ pc = "returned"
    /\ caller = "main"
    /\ connected' = FALSE
    /\ link_calls' = Append(link_calls, "disconnect")
    /\ subscribed' = FALSE
    /\ exit_code' = 0
    /\ pc' = "exit"
    /\ UNCHANGED << inputVars, devices, smart_sketch, dataVars, i, responses, notify_calls, writes,
                    clock, ret, outcome, out, exc, deviceVars >>

\* Mutant: the exception leaves main with the connection left as it is.
UnwindWithoutDisconnect ==
    /\ pc = "unwind"
    /\ caller = "main"
    /\ pc' = "top_level"
    /\ UNCHANGED << inputVars, scanVars, connected, subscribed, exit_code, dataVars, i,
                    responses, notify_calls, writes, clock, ret, outcome, out, exc,
                    deviceVars >>

\* main, line 219: an exception leaves the `async with` block, which
\* disconnects if the connection was made, and leaves main.
Unwind ==
    /\ pc = "unwind"
    /\ caller = "main"
    /\ connected' = FALSE
    /\ link_calls' = IF connected THEN Append(link_calls, "disconnect") ELSE link_calls
    /\ subscribed' = FALSE
    /\ pc' = "top_level"
    /\ UNCHANGED << inputVars, devices, smart_sketch, exit_code, dataVars, i, responses, notify_calls,
                    writes, clock, ret, outcome, out, exc, deviceVars >>

\* Lines 226-234: the handlers around asyncio.run(main()).
TopLevel ==
    /\ pc = "top_level"
    /\ out' = Append(out, IF exc = "KeyboardInterrupt" THEN MsgInterrupted ELSE MsgError)
    /\ outcome' = exc
    /\ exit_code' = 0
    /\ pc' = "exit"
    /\ UNCHANGED << inputVars, scanVars, connected, dataVars, i, responses, subscribed,
                    notify_calls, writes, clock, ret, exc, deviceVars >>

\* ------------------------------------------------------------- the session
mainVars == << inputVars, scanVars, connected, exit_code >>

Write(kind, data) == [ kind |-> kind, data |-> data, response |-> FALSE ]

Call(op, result) == << op, result >>

\* upload_image, lines 110-123: the image is loaded, transcoded and framed.
Prepare ==
    /\ pc = "upload_image"
    /\ \E image \in DeviceImages :
          /\ img' = image
          /\ rgb565_data' = rgb_to_rgb565(image)
    /\ IF PrepareChunksRaises(chunk_size)
       THEN /\ exc' = "Exception"
            /\ pc' = "unwind"
            /\ UNCHANGED chunks
       ELSE /\ chunks' = prepare_chunks(rgb565_data', chunk_size)
            /\ pc' = "send_command"
            /\ UNCHANGED exc
    /\ UNCHANGED << mainVars, chunk_size, i, responses, subscribed, notify_calls, writes,
                    clock, ret, outcome, out, deviceVars >>

\* upload_image, line 115: Image.open raises on a file it cannot decode.
LoadFails ==
    /\ pc = "upload_image"
    /\ exc' = "Exception"
    /\ pc' = "unwind"
    /\ UNCHANGED << mainVars, dataVars, i, responses, subscribed, notify_calls, writes,
                    clock, ret, outcome, out, deviceVars >>

\* upload_image, lines 125-129: the Command Frame is built and written.
SendCommand ==
    /\ pc = "send_command"
    /\ IF CommandFrameRaises(chunk_size)
       THEN /\ exc' = "Exception"
            /\ pc' = "unwind"
            /\ UNCHANGED writes
       ELSE /\ writes' = Append(writes, Write("command", CommandFrame(chunk_size)))
            /\ pc' = "ready_subscribe"
            /\ UNCHANGED exc
    /\ UNCHANGED << mainVars, dataVars, i, responses, subscribed, notify_calls, clock, ret,
                    outcome, out, deviceVars >>

\* wait_for_response, lines 37-39: start_notify, then the start time.
ReadySubscribe ==
    /\ pc = "ready_subscribe"
    /\ subscribed' = TRUE
    /\ notify_calls' = Append(notify_calls, Call("start", "ok"))
    /\ clock' = 0
    /\ pc' = "ready_wait"
    /\ UNCHANGED << mainVars, dataVars, i, responses, writes, ret, outcome, out, exc,
                    deviceVars >>

\* wait_for_response, lines 40-45: the loop's test and the scan of the log.
ReadyPoll ==
    /\ pc = "ready_wait"
    /\ pc' = IF clock < ReadyTimeout
             THEN IF ResponseSeen(TxtOK, responses) THEN "ready_found" ELSE "ready_sleep"
             ELSE "ready_timeout"
    /\ UNCHANGED << mainVars, dataVars, i, responses, subscribed, notify_calls, writes,
                    clock, ret, outcome, out, exc, deviceVars >>

\* A sleep during which the loop's clock does not advance.
ReadyWakeClockStuck ==
    /\ pc = "ready_sleep"
    /\ pc' = "ready_wait"
    /\ UNCHANGED << mainVars, dataVars, i, responses, subscribed, notify_calls, writes,
                    clock, ret, outcome, out, exc, deviceVars >>

\* wait_for_response, line 45: the sleep of one polling interval ends.
ReadyWake ==
    /\ pc = "ready_sleep"
    /\ clock' = clock + 1
    /\ pc' = "ready_wait"
    /\ UNCHANGED << mainVars, dataVars, i, responses, subscribed, notify_calls, writes,
                    ret, outcome, out, exc, deviceVars >>

\* The ready wait returns on "ok" and leaves its subscription in place.
ReadyStopFoundNoStop ==
    /\ pc = "ready_found"
    /\ out' = Append(out, MsgReady)
    /\ pc' = "transfer_subscribe"
    /\ UNCHANGED << mainVars, dataVars, i, responses, subscribed, notify_calls, writes, clock,
                    ret, outcome, exc, deviceVars >>

\* wait_for_response, lines 43-44, and upload_image, lines 131-135.
ReadyStopFound ==
    /\ pc = "ready_found"
    /\ subscribed' = FALSE
    /\ notify_calls' = Append(notify_calls, Call("stop", "ok"))
    /\ out' = Append(out, MsgReady)
    /\ pc' = "transfer_subscribe"
    /\ UNCHANGED << mainVars, dataVars, i, responses, writes, clock, ret, outcome, exc,
                    deviceVars >>

\* wait_for_response, lines 47-48, and upload_image, lines 131-133.
ReadyStopTimeout ==
    /\ pc = "ready_timeout"
    /\ subscribed' = FALSE
    /\ notify_calls' = Append(notify_calls, Call("stop", "ok"))
    /\ out' = Append(out, MsgFailedOK)
    /\ ret' = ReadyTimeoutReturn
    /\ outcome' = "ReadyTimeout"
    /\ pc' = "returned"
    /\ UNCHANGED << mainVars, dataVars, i, responses, writes, clock, exc, deviceVars >>

\* upload_image, lines 137-141: start_notify again, the transfer loop starts.
TransferSubscribe ==
    /\ pc = "transfer_subscribe"
    /\ subscribed' = TRUE
    /\ notify_calls' = Append(notify_calls, Call("start", "ok"))
    /\ i' = 0
    /\ pc' = "transfer"
    /\ UNCHANGED << mainVars, dataVars, responses, writes, clock, ret, outcome, out, exc,
                    deviceVars >>

\* upload_image, lines 142-146: one chunk is written, then the pacing sleep.
WriteChunk ==
    /\ pc = "transfer"
    /\ i < Len(chunks)
    /\ writes' = Append(writes, Write("chunk", ChunkAt(chunks, i)))
    /\ i' = i + 1
    /\ UNCHANGED << pc, mainVars, dataVars, responses, subscribed, notify_calls, clock,
                    ret, outcome, out, exc, deviceVars >>

\* upload_image, lines 148-153: the loop is over, the completion wait starts.
TransferDone ==
    /\ pc = "transfer"
    /\ i >= Len(chunks)
    /\ out' = Append(out, MsgAllSent)
    /\ clock' = 0
    /\ pc' = "completion_wait"
    /\ UNCHANGED << mainVars, dataVars, i, responses, subscribed, notify_calls, writes,
                    ret, outcome, exc, deviceVars >>

\* upload_image, lines 154-163: the loop's test and the scan of the log.
CompletionPoll ==
    /\ pc = "completion_wait"
    /\ pc' = IF clock < CompletionTimeout
             THEN IF DoneSeen(responses) THEN "completion_found" ELSE "completion_sleep"
             ELSE "completion_timeout"
    /\ UNCHANGED << mainVars, dataVars, i, responses, subscribed, notify_calls, writes,
                    clock, ret, outcome, out, exc, deviceVars >>

\* upload_image, line 163: the sleep of one polling interval ends.
CompletionWake ==
    /\ pc = "completion_sleep"
    /\ clock' = clock + 1
    /\ pc' = "completion_wait"
    /\ UNCHANGED << mainVars, dataVars, i, responses, subscribed, notify_calls, writes,
                    ret, outcome, out, exc, deviceVars >>

\* upload_image, lines 157-162: "done" was seen.
CompletionStopDone ==
    /\ pc = "completion_found"
    /\ subscribed' = FALSE
    /\ notify_calls' = Append(notify_calls, Call("stop", "ok"))
    /\ out' = Append(out, MsgUploaded)
    /\ ret' = DoneReturn
    /\ outcome' = "Done"
    /\ pc' = "returned"
    /\ UNCHANGED << mainVars, dataVars, i, responses, writes, clock, exc, deviceVars >>

\* upload_image, lines 165-168: the completion wait timed out.
CompletionStopTimeout ==
    /\ pc = "completion_timeout"
    /\ subscribed' = FALSE
    /\ notify_calls' = Append(notify_calls, Call("stop", "ok"))
    /\ out' = Append(out, MsgNoDone)
    /\ ret' = CompletionTimeoutReturn
    /\ outcome' = "CompletionTimeout"
    /\ pc' = "returned"
    /\ UNCHANGED << mainVars, dataVars, i, responses, writes, clock, exc, deviceVars >>

\* ------------------------------------------------- the transport's failures
\* Where the next step is a call of the transport, and which call.
TransportCall ==
    [ scan |-> "discover", connect |-> "connect", send_command |-> "write",
      ready_subscribe |-> "start", ready_found |-> "stop", ready_timeout |-> "stop",
      transfer_subscribe |-> "start", transfer |-> "write",
      completion_found |-> "stop", completion_timeout |-> "stop" ]

\* Where the program is suspended in an await of the session.
SessionPcs ==
    { "send_command", "ready_subscribe", "ready_wait", "ready_sleep", "ready_found",
      "ready_timeout", "transfer_subscribe", "transfer", "completion_wait",
      "completion_sleep", "completion_found", "completion_timeout" }

\* A call of the transport raises (the link dropped, the adapter failed); the
\* exception propagates, nothing in upload_image or main catches it.
TransportError ==
    /\ pc \in DOMAIN TransportCall
    /\ pc = "transfer" => i < Len(chunks)
    /\ pc = "send_command" => ~CommandFrameRaises(chunk_size)
    /\ notify_calls' = IF TransportCall[pc] \in { "start", "stop" }
                       THEN Append(notify_calls, Call(TransportCall[pc], "raised"))
                       ELSE notify_calls
    /\ exc' = "Exception"
    /\ pc' = "unwind"
    /\ UNCHANGED << mainVars, dataVars, i, responses, subscribed, writes, clock, ret,
                    outcome, out, deviceVars >>

\* The user interrupts while the program is suspended in an await.
Interrupt ==
    /\ pc \in SessionPcs \cup { "scan", "connect" }
    /\ exc' = "KeyboardInterrupt"
    /\ pc' = "unwind"
    /\ UNCHANGED << mainVars, dataVars, i, responses, subscribed, notify_calls, writes,
                    clock, ret, outcome, out, deviceVars >>

\* ---------------------------------------------------------------- the device
\* The device sends a notification after it got the Command Frame.  The
\* transport runs _notification_handler if a subscription is active and drops
\* the notification otherwise.
DeviceNotify ==
    /\ pc \in SessionPcs
    /\ connected
    /\ Len(writes) >= 1
    /\ emitted < MaxNotify
    /\ \E data \in Payloads :
          IF subscribed
          THEN /\ responses' = Handled(responses, data)
               /\ okInWindow' =
                    (\/ okInWindow
                     \/ /\ pc \in { "ready_wait", "ready_sleep" }
                        /\ clock < ReadyTimeout
                        /\ ResponseSeen(TxtOK, << DecodeAscii(data) >>))
               /\ UNCHANGED lostAt
          ELSE /\ lostAt' = IF StripNonEmpty(DecodeAscii(data)) THEN lostAt \cup { pc } ELSE lostAt
               /\ UNCHANGED << responses, okInWindow >>
    /\ emitted' = emitted + 1
    /\ UNCHANGED << pc, mainVars, dataVars, i, subscribed, notify_calls, writes, clock,
                    ret, outcome, out, exc >>

Next ==
    \/ MainArgs
    \/ Scan
    \/ Select
    \/ Connect
    \/ AfterUpload
    \/ Unwind
    \/ TopLevel
    \/ Prepare
    \/ LoadFails
    \/ SendCommand
    \/ ReadySubscribe
    \/ ReadyPoll
    \/ ReadyWake
    \/ ReadyStopFound
    \/ ReadyStopTimeout
    \/ TransferSubscribe
    \/ WriteChunk
    \/ TransferDone
    \/ CompletionPoll
    \/ CompletionWake
    \/ CompletionStopDone
    \/ CompletionStopTimeout
    \/ TransportError
    \/ Interrupt
    \/ DeviceNotify

Spec == Init /\ [][Next]_vars

\* ------------------------------------------ runs in which every call returns
\* The program's own steps when no call of the transport raises and the user
\* does not interrupt.
ProgramStep ==
    \/ MainArgs
    \/ Scan
    \/ Select
    \/ Connect
    \/ AfterUpload
    \/ Unwind
    \/ TopLevel
    \/ Prepare
    \/ LoadFails
    \/ SendCommand
    \/ ReadySubscribe
    \/ ReadyPoll
    \/ ReadyWake
    \/ ReadyStopFound
    \/ ReadyStopTimeout
    \/ TransferSubscribe
    \/ WriteChunk
    \/ TransferDone
    \/ CompletionPoll
    \/ CompletionWake
    \/ CompletionStopDone
    \/ CompletionStopTimeout

NextLive == ProgramStep \/ DeviceNotify

\* asyncio.run drives main to completion: an awaited call that returns and a
\* sleep that ends resume the coroutine, so the program's next step is
\* eventually taken.  The device owes nothing: no fairness on DeviceNotify.
SpecLive == Init /\ [][NextLive]_vars /\ WF_vars(ProgramStep)

\* ------------------------------------- the transcoder and framer on their own
\* Chunk sizes given to the framer on its own: every size up to one more than
\* the longest buffer, and the default.
FramerChunkSizes == (1..(2 * MaxSide + 1)) \cup { DefaultChunkSize }

\* rgb_to_rgb565 is about to be called on an image.
InitTranscoder ==
    /\ pc = "fn_image"
    /\ caller = "direct"
    /\ argv = << >>
    /\ connected = FALSE
    /\ chunk_size \in { 1, 3, DefaultChunkSize }
    /\ img \in AnyImages
    /\ rgb565_data = << >>
    /\ InitCommon

\* prepare_chunks is about to be called on a buffer.
InitFramer ==
    /\ pc = "fn_buffer"
    /\ caller = "direct"
    /\ argv = << >>
    /\ connected = FALSE
    /\ chunk_size \in FramerChunkSizes
    /\ img = NoImage
    /\ rgb565_data \in AnyBuffers
    /\ InitCommon

InitPure == InitTranscoder \/ InitFramer

\* A call of rgb_to_rgb565.
Transcode ==
    /\ pc = "fn_image"
    /\ rgb565_data' = rgb_to_rgb565(img)
    /\ pc' = "fn_transcoded"
    /\ UNCHANGED << mainVars, chunk_size, img, chunks, i, responses, subscribed,
                    notify_calls, writes, clock, ret, outcome, out, exc, deviceVars >>

\* A call of prepare_chunks.
Frame ==
    /\ pc \in { "fn_transcoded", "fn_buffer" }
    /\ ~PrepareChunksRaises(chunk_size)
    /\ chunks' = prepare_chunks(rgb565_data, chunk_size)
    /\ pc' = "fn_framed"
    /\ UNCHANGED << mainVars, chunk_size, img, rgb565_data, i, responses, subscribed,
                    notify_calls, writes, clock, ret, outcome, out, exc, deviceVars >>

NextPure == Transcode \/ Frame

SpecPure == InitPure /\ [][NextPure]_vars

\* ================================================================== claims
\* Helpers of the claims' formulas, written without the model's operators.
Range(q) == { q[k] : k \in 1..Len(q) }

RECURSIVE Concat(_)
Concat(qs) == IF Len(qs) = 0 THEN << >> ELSE Head(qs) \o Concat(Tail(qs))

\* Some logged fragment holds "ok" in either case.
LogHasOk ==
    \E k \in 1..Len(responses) : \E j \in 1..(Len(responses[k]) - 1) :
        /\ responses[k][j] \in { 79, 111 }
        /\ responses[k][j + 1] \in { 75, 107 }

\* Some logged fragment holds "done" in either case.
LogHasDone ==
    \E k \in 1..Len(responses) : \E j \in 1..(Len(responses[k]) - 3) :
        /\ responses[k][j] \in { 68, 100 }
        /\ responses[k][j + 1] \in { 79, 111 }
        /\ responses[k][j + 2] \in { 78, 110 }
        /\ responses[k][j + 3] \in { 69, 101 }

ChunkWrites == { k \in 1..Len(writes) : writes[k].kind = "chunk" }

CommandWrites == { k \in 1..Len(writes) : writes[k].kind = "command" }

\* The data of the writes after the first, in order.
PayloadData == [ k \in 1..(Len(writes) - 1) |-> writes[k + 1].data ]

\* upload_image has returned.
Returned == ret # "None"

\* C1: a chunk is written only when the log holds a fragment containing "ok",
\* and an upload_image that returns with no such fragment in the log returns
\* False by the ready timeout, having written no chunk.
C1_NoOkNoChunk ==
    /\ ChunkWrites # {} => LogHasOk
    /\ (Returned /\ ~LogHasOk) =>
          /\ ret = "False"
          /\ outcome = "ReadyTimeout"
          /\ ChunkWrites = {}

\* C1 witness: the device only ever said "BUSY", and upload_image returned False.
C1_Witness ==
    /\ ret = "False"
    /\ emitted = MaxNotify
    /\ Len(responses) >= 2
    /\ \A k \in 1..Len(responses) : responses[k] = << 66, 85, 83, 89 >>
    /\ ChunkWrites = {}

\* C2 (as claimed): an "ok" that the handler logs while the ready wait is
\* within its timeout never ends in the ready timeout.
C2_OkInTimeNeverTimesOut == okInWindow => (pc # "ready_timeout" /\ outcome # "ReadyTimeout")

\* C3 (as claimed): when upload_image has stopped running, every subscription
\* it started has had its stop_notify attempted.
C3_UnsubscribedOnEveryExit ==
    (pc \in { "returned", "unwind", "top_level", "exit" }) =>
        \A k \in 1..Len(notify_calls) :
            notify_calls[k] = << "start", "ok" >> =>
                \E j \in (k + 1)..Len(notify_calls) : notify_calls[j][1] = "stop"

\* C4 (as claimed): the values returned for the ready timeout, the completion
\* timeout and the confirmed success are pairwise different.
C4_ReturnValuesPairwiseDifferent ==
    /\ outcome = "ReadyTimeout" => ret \notin { DoneReturn, CompletionTimeoutReturn }
    /\ outcome = "CompletionTimeout" => ret \notin { DoneReturn, ReadyTimeoutReturn }
    /\ outcome = "Done" => ret \notin { ReadyTimeoutReturn, CompletionTimeoutReturn }

\* C4 (amended): the return value and the printed lines together tell the
\* outcomes apart: False is returned exactly for the ready timeout; True with
\* the success banner exactly for the confirmed success; True with the
\* "didn't receive 'Done'" warning exactly for the completion timeout; and
\* "Device not found!" is printed exactly for a not-found attempt, in which
\* upload_image never ran.
C4_OutputTellsOutcome ==
    /\ outcome = "ReadyTimeout" <=> ret = "False"
    /\ outcome = "Done" <=> (ret = "True" /\ MsgUploaded \in Range(out))
    /\ outcome = "CompletionTimeout" <=> (ret = "True" /\ MsgNoDone \in Range(out))
    /\ outcome = "DeviceNotFound" <=> MsgNotFound \in Range(out)
    /\ outcome = "DeviceNotFound" => (ret = "None" /\ writes = << >>)
    /\ ~(MsgUploaded \in Range(out) /\ MsgNoDone \in Range(out))

\* C4 witness: a completion timeout, which returns what the confirmed success
\* returns and differs from it in the printed line.
C4_Witness ==
    /\ outcome = "CompletionTimeout"
    /\ ret = DoneReturn
    /\ MsgNoDone \in Range(out)
    /\ MsgUploaded \notin Range(out)

\* C5: when upload_image returns after the completion wait timed out, or
\* after all chunks were sent with no "done" in the log, it returns True with
\* the unconfirmed warning as its last line and without the success banner;
\* once all chunks are sent it never returns False.
C5_SoftSuccess ==
    /\ outcome = "CompletionTimeout" =>
          /\ ret = "True"
          /\ out[Len(out)] = MsgNoDone
          /\ MsgUploaded \notin Range(out)
          /\ Cardinality(ChunkWrites) = Len(chunks)
    /\ (Returned /\ MsgAllSent \in Range(out) /\ ~LogHasDone) => outcome = "CompletionTimeout"
    /\ MsgAllSent \in Range(out) => ret # "False"

\* C5 witness: all chunks sent, no "done" logged, True returned.
C5_Witness ==
    /\ outcome = "CompletionTimeout"
    /\ ~LogHasDone
    /\ ret = "True"
    /\ Len(chunks) >= 2
    /\ Cardinality(ChunkWrites) = Len(chunks)

\* C6: the first write is the Command Frame [1, 0, 0, 0, chunk_size, 0, 2, 0],
\* written without response; it is the only command write, every later write
\* is a chunk, and its fifth byte is the size the buffer was partitioned by.
C6_CommandFrameFirst ==
    Len(writes) >= 1 =>
        /\ writes[1].kind = "command"
        /\ writes[1].data = << 1, 0, 0, 0, chunk_size, 0, 2, 0 >>
        /\ writes[1].response = FALSE
        /\ CommandWrites = { 1 }
        /\ \A k \in 2..Len(writes) : writes[k].kind = "chunk"
        /\ \A k \in 1..Len(chunks) :
              /\ Len(chunks[k]) >= 1
              /\ Len(chunks[k]) <= writes[1].data[5]
              /\ k < Len(chunks) => Len(chunks[k]) = writes[1].data[5]
        /\ chunk_size = DefaultChunkSize => writes[1].data[5] = 80

\* C6 witness: chunks were written after the Command Frame, with a chunk size
\* other than the default.
C6_Witness ==
    /\ chunk_size = 3
    /\ Len(writes) >= 3
    /\ writes[1].data = << 1, 0, 0, 0, 3, 0, 2, 0 >>

\* C7: the payload writes are at every moment the first chunks in framer
\* order, one write each and without response, and from the start of the
\* completion wait on they are the whole chunk sequence.
C7_ChunksInOrder ==
    /\ Len(writes) >= 1 =>
          /\ Len(PayloadData) <= Len(chunks)
          /\ PayloadData = SubSeq(chunks, 1, Len(PayloadData))
          /\ \A k \in 2..Len(writes) : writes[k].response = FALSE
    /\ (\/ pc \in { "completion_wait", "completion_sleep", "completion_found",
                    "completion_timeout" }
        \/ outcome \in { "Done", "CompletionTimeout" }) =>
          /\ Len(writes) >= 1
          /\ PayloadData = chunks
          /\ Len(chunks) >= 1

\* C7 witness: the completion wait has started after several different chunks.
C7_Witness ==
    /\ pc = "completion_wait"
    /\ Len(chunks) >= 2
    /\ chunks[1] # chunks[Len(chunks)]
    /\ PayloadData = chunks

\* C8: after prepare_chunks, the chunks concatenated in order and reversed
\* are the buffer: byte k of the concatenation is byte k from the end.
C8_ChunkRoundTrip ==
    pc = "fn_framed" =>
        LET cat == Concat(chunks)
            n == Len(rgb565_data)
        IN  /\ Len(cat) = n
            /\ \A k \in 1..n : cat[k] = rgb565_data[n + 1 - k]

\* C8 witness: a buffer whose length the chunk size does not divide, with
\* different first and last bytes, in more than one chunk.
C8_Witness ==
    /\ pc = "fn_framed"
    /\ img = NoImage
    /\ Len(rgb565_data) % chunk_size # 0
    /\ Len(chunks) >= 2
    /\ rgb565_data[1] # rgb565_data[Len(rgb565_data)]

\* C9 (as claimed): no notification the device sends after the Command Frame
\* was written is dropped before the ready wait's subscription is active.
C9_NoEarlyResponseMissed == "ready_subscribe" \notin lostAt

\* C10: after rgb_to_rgb565 the buffer has 2 * width * height bytes, and the
\* pixel at row-major position p gives bytes 2p and 2p + 1: the low and the
\* high byte of r/8 * 2048 + g/4 * 32 + b/8, which is below 65536.
C10_Rgb565Reference ==
    (pc \in { "fn_transcoded", "fn_framed" } /\ img # NoImage) =>
        /\ Len(rgb565_data) = 2 * img.width * img.height
        /\ \A p \in 0..(img.width * img.height - 1) :
              LET px == img.pixels[<< p % img.width, p \div img.width >>]
                  v == (px[1] \div 8) * 2048 + (px[2] \div 4) * 32 + (px[3] \div 8)
              IN  /\ v < 65536
                  /\ rgb565_data[2 * p + 1] = v % 256
                  /\ rgb565_data[2 * p + 2] = v \div 256

\* C10 witness: an image of several rows and columns was transcoded.
C10_Witness ==
    /\ pc = "fn_transcoded"
    /\ img.width >= 2
    /\ img.height >= 2
    /\ img.pixels[<< 1, 0 >>] # img.pixels[<< 0, 1 >>]
    /\ Len(rgb565_data) = 2 * img.width * img.height

\* `word` (lower-case letters) occurs in `name` in either case.
HasWord(name, word) ==
    \E k \in 0..(Len(name) - Len(word)) :
        \A j \in 1..Len(word) : name[k + j] \in { word[j], word[j] - 32 }

\* The locator's predicate: a name is advertised and holds "smart" and "sketch".
IsSketcher(d) ==
    /\ d.name # << >>
    /\ HasWord(d.name, << 115, 109, 97, 114, 116 >>)
    /\ HasWord(d.name, << 115, 107, 101, 116, 99, 104 >>)

\* The scan and the selection are over.
Selected == "discover" \in Range(link_calls) /\ pc # "select"

\* C11: once the selection is over, the selected device is the first device
\* of the scan that satisfies the predicate, and not-found is signalled
\* exactly when no device of the scan satisfies it.
C11_FirstMatchingDevice ==
    /\ Selected =>
          /\ outcome = "DeviceNotFound" <=> (\A k \in 1..Len(devices) : ~IsSketcher(devices[k]))
          /\ outcome = "DeviceNotFound" <=> smart_sketch = NoDevice
          /\ smart_sketch # NoDevice =>
                \E k \in 1..Len(devices) :
                    /\ smart_sketch = devices[k]
                    /\ IsSketcher(devices[k])
                    /\ \A j \in 1..(k - 1) : ~IsSketcher(devices[j])
    /\ ~Selected => smart_sketch = NoDevice
    /\ IsSketcher(Dev(NameSketcher, 1))
    /\ ~IsSketcher(Dev(NameOther, 1))
    /\ ~IsSketcher(Dev(NameNone, 1))

\* C11 witness: "smART_Sketcher2.0" was selected, the first of two such
\* devices, after a device with no name.
C11_Witness ==
    /\ pc = "connect"
    /\ Len(devices) = 3
    /\ devices[1].name = << >>
    /\ IsSketcher(devices[3])
    /\ smart_sketch = devices[2]
    /\ smart_sketch # devices[3]

\* C12: a not-found attempt has ended: the program has exited after one scan,
\* with no connection, no write and no subscription, and takes no further step.
C12_NotFoundIsTerminal ==
    outcome = "DeviceNotFound" =>
        /\ pc = "exit"
        /\ link_calls = << "discover" >>
        /\ ~connected
        /\ writes = << >>
        /\ notify_calls = << >>
        /\ ~subscribed
        /\ ~ENABLED Next

\* C12 witness: the scan found devices, none of them a match.
C12_Witness ==
    /\ outcome = "DeviceNotFound"
    /\ Len(devices) >= 2
    /\ pc = "exit"

\* The arguments fail main's validation: no argument, a path that does not
\* exist, or an extension other than png, jpg, jpeg in any case.
InvalidArgs ==
    \/ argv = << >>
    \/ ~argv[1].exists
    \/ ~(\/ HasWord(argv[1].ext, << 46, 112, 110, 103 >>) /\ Len(argv[1].ext) = 4
         \/ HasWord(argv[1].ext, << 46, 106, 112, 103 >>) /\ Len(argv[1].ext) = 4
         \/ HasWord(argv[1].ext, << 46, 106, 112, 101, 103 >>) /\ Len(argv[1].ext) = 5)

\* C13: a run from the command line with invalid arguments never scans,
\* connects, writes or subscribes, and once it has left the argument checks it
\* has exited with code 1; a run that ended in a validation failure had
\* invalid arguments.
C13_ValidationBeforeTransport ==
    /\ (caller = "main" /\ InvalidArgs) =>
          /\ link_calls = << >>
          /\ ~connected
          /\ writes = << >>
          /\ notify_calls = << >>
          /\ pc \in { "main", "exit" }
          /\ pc = "exit" =>
                /\ exit_code = 1
                /\ outcome \in { "Usage", "FileNotFound", "UnsupportedFormat" }
    /\ outcome \in { "Usage", "FileNotFound", "UnsupportedFormat" } =>
          (caller = "main" /\ InvalidArgs /\ exit_code = 1)

\* C13 witness: an existing file with an unsupported extension was refused.
C13_Witness ==
    /\ outcome = "UnsupportedFormat"
    /\ argv[1].exists
    /\ exit_code = 1
    /\ link_calls = << >>

\* C14: in a run from the command line, the connection is down whenever the
\* program has left main: a connect call is followed by a disconnect call as
\* the last call on the link, and when the top level prints its failure line
\* the disconnect has already been made.
C14_ConnectionReleased ==
    caller = "main" =>
        /\ connected <=> (link_calls # << >> /\ link_calls[Len(link_calls)] = "connect")
        /\ pc \in { "top_level", "exit" } =>
              /\ ~connected
              /\ "connect" \in Range(link_calls) =>
                    link_calls[Len(link_calls)] = "disconnect"
        /\ (MsgError \in Range(out) \/ MsgInterrupted \in Range(out)) =>
              (~connected /\ pc = "exit")
        /\ connected => pc \in SessionPcs \cup { "upload_image", "returned", "unwind" }

\* C14 witness: the user interrupted the transfer, and the connection is down
\* before the top level reports it.
C14_Witness ==
    /\ pc = "top_level"
    /\ exc = "KeyboardInterrupt"
    /\ Len(writes) >= 2
    /\ link_calls = << "discover", "connect", "disconnect" >>
    /\ ~connected

\* C15: for a non-empty buffer of n bytes and a chunk size c >= 1,
\* prepare_chunks returns ceil(n / c) chunks; all but the last have c bytes,
\* the last has 1..c bytes, and byte j of chunk k is byte k*c + j of the
\* reversed buffer, so chunk 0 starts with the buffer's last byte. By the same
\* count a 38400-byte buffer in chunks of 80 gives 480 full chunks.
C15_ChunkShape ==
    /\ (38400 + DefaultChunkSize - 1) \div DefaultChunkSize = 480
    /\ 38400 % DefaultChunkSize = 0
    /\ (pc = "fn_framed" /\ Len(rgb565_data) > 0 /\ chunk_size >= 1) =>
          LET n == Len(rgb565_data)
              c == chunk_size
              count == (n + c - 1) \div c
          IN  /\ Len(chunks) = count
              /\ \A k \in 1..Len(chunks) :
                    /\ k < count => Len(chunks[k]) = c
                    /\ Len(chunks[k]) \in 1..c
                    /\ \A j \in 1..Len(chunks[k]) :
                          /\ (k - 1) * c + j <= n
                          /\ chunks[k][j] = rgb565_data[n + 1 - ((k - 1) * c + j)]
              /\ chunks[1][1] = rgb565_data[n]

\* C15 witness: four bytes in chunks of three give a full chunk and a
\* remainder of one byte, the first chunk starting with the last byte.
C15_Witness ==
    /\ pc = "fn_framed"
    /\ chunk_size = 3
    /\ rgb565_data = << 0, 1, 1, 255 >>
    /\ chunks = << << 255, 1, 1 >>, << 0 >> >>

\* One sequence is an initial part of the other.
IsPrefix(s, t) == Len(s) <= Len(t) /\ \A k \in 1..Len(s) : s[k] = t[k]

\* C16: the log only ever grows, and a poll of the completion wait finds
\* "done" exactly when the deadline has not passed and some single fragment
\* anywhere in the log holds it, whenever that fragment was logged; Done is
\* reported only after such a poll.
C16_WholeLogConsulted ==
    /\ [](/\ pc = "completion_found" => (LogHasDone /\ clock < CompletionTimeout)
          /\ pc = "completion_sleep" => clock < CompletionTimeout
          /\ pc = "completion_timeout" => clock >= CompletionTimeout
          /\ outcome = "Done" => LogHasDone)
    /\ [][/\ IsPrefix(responses, responses')
          /\ (pc = "completion_wait" /\ pc' \in { "completion_found", "completion_sleep",
                                                   "completion_timeout" }) =>
                (pc' = "completion_found" <=> (clock < CompletionTimeout /\ LogHasDone))
          /\ (outcome # "Done" /\ outcome' = "Done") => pc = "completion_found"
          /\ (outcome # "CompletionTimeout" /\ outcome' = "CompletionTimeout") =>
                pc = "completion_timeout"]_vars

\* C16 witness: "Done" was logged during the ready wait, before the "OK";
\* the first completion poll reports Done and nothing arrived after the
\* last chunk.
C16_Witness ==
    /\ outcome = "Done"
    /\ clock = 0
    /\ emitted = 2
    /\ Len(responses) = 2
    /\ responses[2] = TxtOK
    /\ Len(writes) = 1 + Len(chunks)
    /\ Len(chunks) >= 1

\* C17 (as claimed): from the moment the ready wait has found "ok" until the
\* completion wait is over, no notification with text in it is sent while
\* the session has no subscription.
C17_NoGapAfterReady ==
    lostAt \cap { "transfer_subscribe", "transfer", "completion_wait", "completion_sleep",
                  "completion_found", "completion_timeout" } = {}

\* C18: in one session the calls on the subscription alternate, start_notify
\* first: an odd call is a start made while none is active, an even call is a
\* stop made while one is active, so at most one subscription exists; only
\* the last call can have failed, and that ends the session; and
\* upload_image returns, with any of its
\* three outcomes, after an even number of calls and with none active.
C18_NotifyCallsAlternate ==
    /\ Len(notify_calls) <= 4
    /\ \A k \in 1..Len(notify_calls) :
          /\ notify_calls[k][1] = (IF k % 2 = 1 THEN "start" ELSE "stop")
          /\ k < Len(notify_calls) => notify_calls[k][2] = "ok"
    /\ exc = "none" => (subscribed <=> Len(notify_calls) % 2 = 1)
    /\ Returned =>
          /\ ~subscribed
          /\ Len(notify_calls) = (IF outcome = "ReadyTimeout" THEN 2 ELSE 4)
          /\ \A k \in 1..Len(notify_calls) : notify_calls[k][2] = "ok"

\* C18 witness: a session that ended with Done made start, stop, start, stop.
C18_Witness ==
    /\ outcome = "Done"
    /\ Returned
    /\ notify_calls = << << "start", "ok" >>, << "stop", "ok" >>,
                         << "start", "ok" >>, << "stop", "ok" >> >>
    /\ ~subscribed

\* The phase of upload_image a position belongs to, in the order of the code.
Phase(p) ==
    CASE p \in { "main", "scan", "select", "connect", "upload_image", "send_command" } -> 0
      [] p \in { "ready_subscribe", "ready_wait", "ready_sleep", "ready_found",
                 "ready_timeout" } -> 1
      [] p \in { "transfer_subscribe", "transfer" } -> 2
      [] p \in { "completion_wait", "completion_sleep", "completion_found",
                 "completion_timeout" } -> 3
      [] OTHER -> 4

Outcomes == { "ReadyTimeout", "Done", "CompletionTimeout" }

\* C19: when every call returns and sleeps end, a session that has sent its
\* Command Frame ends with exactly one of the three outcomes, whatever the
\* device sends: each wait sleeps at most its timeout's worth of polling
\* intervals, a session that got past the ready wait has written each chunk
\* exactly once, the outcome once set never changes, and the phases are
\* passed in order, none entered again.
C19_SessionTerminates ==
    /\ [](/\ Phase(pc) = 1 => clock <= ReadyTimeout
          /\ Phase(pc) = 3 => clock <= CompletionTimeout
          /\ Returned <=> outcome \in Outcomes
          /\ outcome = "ReadyTimeout" => Len(writes) = 1
          /\ outcome \in { "Done", "CompletionTimeout" } =>
                /\ Len(writes) = 1 + Len(chunks)
                /\ \A k \in 1..Len(chunks) : writes[k + 1].data = chunks[k])
    /\ [][/\ Phase(pc') >= Phase(pc)
          /\ outcome \in Outcomes => outcome' = outcome
          /\ clock' # clock => (clock' = clock + 1 \/ (clock' = 0 /\ Phase(pc') > Phase(pc)))]_vars
    /\ (Len(writes) >= 1) ~> (outcome \in Outcomes)

\* C19 witness: the device stayed silent after "OK"; the session ran through
\* every phase and ended with the soft timeout after the full completion wait.
C19_Witness ==
    /\ outcome = "CompletionTimeout"
    /\ clock = CompletionTimeout
    /\ emitted = 1
    /\ responses = << TxtOK >>
    /\ Len(chunks) >= 2
    /\ Len(writes) = 1 + Len(chunks)

\* C20: with a chunk size outside 1..255 upload_image fails with an error
\* before anything is written and before any subscription is started; with
\* a chunk size in 1..255 byte 4 of the Command Frame is that size, and it is
\* the length of every chunk written except the final one.
C20_UncarriableSizeNeverSent ==
    /\ chunk_size \notin 1..255 =>
          /\ writes = << >>
          /\ notify_calls = << >>
          /\ ~subscribed
          /\ ~Returned
          /\ outcome = "none"
          /\ pc \notin { "upload_image", "send_command" } => exc # "none"
    /\ (chunk_size \in 1..255 /\ Len(writes) >= 1) =>
          /\ writes[1].kind = "command"
          /\ writes[1].data[5] = chunk_size
          /\ \A k \in 2..Len(writes) :
                /\ writes[k].kind = "chunk"
                /\ k - 1 < Len(chunks) => Len(writes[k].data) = writes[1].data[5]
                /\ Len(writes[k].data) \in 1..chunk_size

\* C20 witness: a chunk size of 256: the chunks were prepared, building the
\* Command Frame raised, nothing was written.
C20_Witness ==
    /\ chunk_size = 256
    /\ pc = "unwind"
    /\ exc = "Exception"
    /\ chunks # << >>
    /\ writes = << >>
    /\ notify_calls = << >>

====
